---- MODULE Spec2Model ----
(***************************************************************************)
(* AnimalToYOLODatasetAdapter (src/dataset_prepocessing/dataset_adapter.py) *)
(* as a state machine: the source tree on disk, the adapter built by        *)
(* _index_dataset, the query methods, parse_annot and the convert pass      *)
(* with the output tree it writes.                                          *)
(*                                                                          *)
(* File names are sequences of string tokens: a name token ("a", "Label")   *)
(* holds no dot, a suffix token (".jpg", ".txt") starts with its only dot.  *)
(* <<"a", ".jpg">> is the file a.jpg, <<".jpg", ".jpg">> is .jpg.jpg.       *)
(***************************************************************************)
EXTENDS Integers, Sequences, FiniteSets, TLC

VARIABLES
    tree,          \* the source dataset on disk, in os.listdir order
    label_filter,  \* the label_filter argument of __init__
    adapter,       \* the adapter's fields (_index, label_stats, ...)
    ret,           \* outcome of the last public call
    pc,            \* position of the running convert call
    si, li, xi,    \* convert's loop positions: split, label, sample
    label,         \* convert's local variable `label`
    clock,         \* number of convert calls started (time of a file write)
    io,            \* the source paths the last processed sample read
    outDirs,       \* directories created under the output root
    outLabels,     \* output label files: <<split, file name>> -> content
    outImages,     \* output image files: <<split, file name>> -> data, mtime
    outAfter       \* the output tree as each convert call left it

vars == <<tree, label_filter, adapter, ret, pc, si, li, xi, label, clock, io,
          outDirs, outLabels, outImages, outAfter>>

(***************************************************************************)
(* Bounds of the model.                                                    *)
(***************************************************************************)
MaxN == 2        \* largest n passed to get_random_samples
MaxRuns == 2     \* convert calls per behaviour
MaxTokens == 6   \* tokens per annotation line in the parse_annot inputs

(***************************************************************************)
(* Generic helpers.                                                        *)
(***************************************************************************)
Range(s) == {s[i] : i \in 1..Len(s)}

NoDup(s) == \A i, j \in 1..Len(s) : s[i] = s[j] => i = j

EmptyFn == [x \in {} |-> 0]

RECURSIVE SumSeq(_)
SumSeq(s) == IF s = <<>> THEN 0 ELSE Head(s) + SumSeq(Tail(s))

RECURSIVE SumFn(_, _)
SumFn(f, keys) ==
    IF keys = {} THEN 0
    ELSE LET k == CHOOSE x \in keys : TRUE IN f[k] + SumFn(f, keys \ {k})

(***************************************************************************)
(* File names: str.endswith and pathlib's Path(filename).stem.             *)
(***************************************************************************)
SuffixTokens == {".jpg", ".txt"}

LabelDirName == <<"Label">>

EndsWith(filename, ext) == Len(filename) > 0 /\ filename[Len(filename)] = ext

\* Position of the token holding the last dot of the name, 0 when none.
LastDot(filename) ==
    LET dots == {i \in 1..Len(filename) : filename[i] \in SuffixTokens}
    IN IF dots = {} THEN 0 ELSE CHOOSE i \in dots : \A j \in dots : j <= i

\* A dot that opens the name starts no suffix: Path(".jpg").stem is ".jpg",
\* and Path(".jpg.jpg").stem is ".jpg" as well.
Stem(filename) ==
    LET i == LastDot(filename)
    IN IF i > 1 THEN SubSeq(filename, 1, i - 1) ELSE filename

(***************************************************************************)
(* The source tree.  tree is the os.listdir order of the root: a sequence  *)
(* of splits [name, dirs]; dirs is the listing of the split: a sequence of *)
(* label directories [name, files, annots]; files are the entries of the   *)
(* label directory beside its Label subdirectory, [name, image], and       *)
(* annots the entries of the Label subdirectory, [name, lines].            *)
(***************************************************************************)
FindSplit(t, split) == {i \in 1..Len(t) : t[i].name = split}

FindDir(t, split, lbl) ==
    {d \in UNION {Range(t[i].dirs) : i \in FindSplit(t, split)} : d.name = lbl}

\* os.listdir(label_path): the files and the Label subdirectory itself.
ListLabelDir(d) == [i \in 1..Len(d.files) |-> d.files[i].name] \o <<LabelDirName>>

\* os.listdir(annotations_path)
ListAnnotDir(d) == [i \in 1..Len(d.annots) |-> d.annots[i].name]

(***************************************************************************)
(* LookupTable (module lookupTable, not part of the sources at hand): the  *)
(* labels in first-seen order, the index of a label its position from 0.   *)
(***************************************************************************)
LookupNew == <<>>

LookupAdd(lk, lbl) == IF lbl \in Range(lk) THEN lk ELSE Append(lk, lbl)

LookupHas(lk, lbl) == lbl \in Range(lk)

LookupGet(lk, lbl) == (CHOOSE i \in 1..Len(lk) : lk[i] = lbl) - 1

\* list(lookup): the (label, index) pairs in index order
LookupItems(lk) == [i \in 1..Len(lk) |-> <<lk[i], i - 1>>]

(***************************************************************************)
(* _index_dataset.  The index is an insertion-ordered dict: a sequence of  *)
(* [split, entries], entries a sequence of [label, ids].                   *)
(***************************************************************************)
IndexSplits(index) == {index[i].split : i \in 1..Len(index)}

IndexEntries(index, split) ==
    index[CHOOSE i \in 1..Len(index) : index[i].split = split].entries

EntryLabels(entries) == {entries[i].label : i \in 1..Len(entries)}

EntryIds(entries, lbl) ==
    entries[CHOOSE i \in 1..Len(entries) : entries[i].label = lbl].ids

\* index[split][label] = sample_ids on a defaultdict(dict)
IndexPut(index, split, lbl, ids) ==
    IF split \in IndexSplits(index)
    THEN [i \in 1..Len(index) |->
            IF index[i].split = split
            THEN [index[i] EXCEPT !.entries = Append(@, [label |-> lbl, ids |-> ids])]
            ELSE index[i]]
    ELSE Append(index, [split |-> split,
                        entries |-> <<[label |-> lbl, ids |-> ids]>>])

\* counter[key] += n on a Counter
CounterAdd(c, key, n) ==
    [k \in DOMAIN c \cup {key} |->
        (IF k \in DOMAIN c THEN c[k] ELSE 0) + (IF k = key THEN n ELSE 0)]

\* line 62: the label directory is scanned unless a filter leaves it out
Retained(lbl, filter) == ~(filter.given /\ lbl \notin filter.names)

IsImageEntry(filename) == filename # LabelDirName /\ EndsWith(filename, ".jpg")

IsAnnotEntry(filename) == EndsWith(filename, ".txt")

\* lines 66-70
ImageSampleIds(d) ==
    LET sel == SelectSeq(ListLabelDir(d), IsImageEntry)
    IN [i \in 1..Len(sel) |-> Stem(sel[i])]

\* lines 72-76
AnnotSampleIds(d) ==
    LET sel == SelectSeq(ListAnnotDir(d), IsAnnotEntry)
    IN [i \in 1..Len(sel) |-> Stem(sel[i])]

IdsMatchBySubset(sample_ids, annot_sample_ids) ==
    Range(annot_sample_ids) \subseteq Range(sample_ids)

\* lines 77-79: the assertion
IdsMatch(sample_ids, annot_sample_ids) ==
    Range(sample_ids) = Range(annot_sample_ids)

RecordLabelSkippingEmpty(acc, split, lbl, sample_ids) ==
    LET n == Len(sample_ids)
    IN [acc EXCEPT !.index = IndexPut(@, split, lbl, sample_ids),
                   !.label_stats = CounterAdd(@, lbl, n),
                   !.split_stats = IF n = 0 THEN @ ELSE CounterAdd(@, split, n),
                   !.size = @ + n,
                   !.lookup = LookupAdd(@, lbl)]

\* lines 81-89: update index, stats and lookup
RecordLabel(acc, split, lbl, sample_ids) ==
    LET n == Len(sample_ids)
    IN [acc EXCEPT !.index = IndexPut(@, split, lbl, sample_ids),
                   !.label_stats = CounterAdd(@, lbl, n),
                   !.split_stats = CounterAdd(@, split, n),
                   !.size = @ + n,
                   !.lookup = LookupAdd(@, lbl)]

ScanStart ==
    [ok |-> TRUE, index |-> <<>>, label_stats |-> EmptyFn, split_stats |-> EmptyFn,
     lookup |-> LookupNew, size |-> 0]

\* lines 61-89: the labels of one split, from position i on
RECURSIVE ScanLabels(_, _, _, _, _)
ScanLabels(split, dirs, i, filter, acc) ==
    IF ~acc.ok \/ i > Len(dirs) THEN acc
    ELSE LET d == dirs[i] IN
         IF ~Retained(d.name, filter)
         THEN ScanLabels(split, dirs, i + 1, filter, acc)
         ELSE IF ~IdsMatch(ImageSampleIds(d), AnnotSampleIds(d))
              THEN [acc EXCEPT !.ok = FALSE]
              ELSE ScanLabels(split, dirs, i + 1, filter,
                              RecordLabel(acc, split, d.name, ImageSampleIds(d)))

\* lines 57-60: the splits, from position i on
RECURSIVE ScanSplits(_, _, _, _)
ScanSplits(t, i, filter, acc) ==
    IF ~acc.ok \/ i > Len(t) THEN acc
    ELSE ScanSplits(t, i + 1, filter,
                    ScanLabels(t[i].name, t[i].dirs, 1, filter, acc))

IndexDataset(t, filter) == ScanSplits(t, 1, filter, ScanStart)

(***************************************************************************)
(* The adapter.  A failed construction leaves no instance: every field     *)
(* stays unset.                                                            *)
(***************************************************************************)
NoAdapter(state) ==
    [state |-> state, index |-> <<>>, label_stats |-> EmptyFn,
     split_stats |-> EmptyFn, label_lookup |-> LookupNew, size |-> 0]

\* __init__, lines 26-34
NewAdapter(t, filter) ==
    LET r == IndexDataset(t, filter)
    IN IF r.ok
       THEN [state |-> "ok", index |-> r.index, label_stats |-> r.label_stats,
             split_stats |-> r.split_stats, label_lookup |-> r.lookup,
             size |-> r.size]
       ELSE NoAdapter("failed")

NoRet ==
    [op |-> "none", split |-> "", n |-> 0, ok |-> TRUE, err |-> "", value |-> 0,
     samples |-> <<>>, annots |-> <<>>]

Raised(op, split, n, err) ==
    [NoRet EXCEPT !.op = op, !.split = split, !.n = n, !.ok = FALSE, !.err = err]

(***************************************************************************)
(* Query methods.                                                          *)
(***************************************************************************)
\* __len__, lines 93-94
AdapterLen(ad) == ad.size

\* labels, lines 96-102
Labels(ad) == LookupItems(ad.label_lookup)

\* get_split_size, lines 137-142: a lookup in the plain dict split_stats
GetSplitSize(ad, split) ==
    IF split \in DOMAIN ad.split_stats
    THEN [NoRet EXCEPT !.op = "get_split_size", !.split = split,
                       !.value = ad.split_stats[split]]
    ELSE Raised("get_split_size", split, 0, "KeyError")

\* lines 129-133: the outcomes of the k draws still to make
RECURSIVE Draws(_, _, _, _, _)
Draws(split, n, split_index, label_names, result) ==
    IF Len(result) = n
    THEN {[NoRet EXCEPT !.op = "get_random_samples", !.split = split, !.n = n,
                        !.samples = result]}
    ELSE UNION {
           IF lbl \notin EntryLabels(split_index)
           THEN {Raised("get_random_samples", split, n, "KeyError:label")}
           ELSE IF EntryIds(split_index, lbl) = <<>>
           THEN {Raised("get_random_samples", split, n, "IndexError")}
           ELSE UNION {Draws(split, n, split_index, label_names,
                             Append(result, <<split, lbl, sample_id>>))
                       : sample_id \in Range(EntryIds(split_index, lbl))}
           : lbl \in Range(label_names)}

\* get_random_samples, lines 112-135: every outcome random.choice allows
GetRandomSamples(ad, n, split) ==
    IF split \notin IndexSplits(ad.index)
    THEN {Raised("get_random_samples", split, n, "KeyError:split")}
    ELSE IF Labels(ad) = <<>>
    THEN {Raised("get_random_samples", split, n, "ValueError")}
    ELSE Draws(split, n, IndexEntries(ad.index, split),
               [i \in 1..Len(Labels(ad)) |-> Labels(ad)[i][1]], <<>>)

(***************************************************************************)
(* Paths and the two readers.                                              *)
(***************************************************************************)
\* get_image_path, lines 144-156
GetImagePath(split, lbl, sample_id) ==
    [split |-> split, label |-> lbl, dir |-> "", file |-> Append(sample_id, ".jpg")]

\* get_annot_path, lines 173-185
GetAnnotPath(split, lbl, sample_id) ==
    [split |-> split, label |-> lbl, dir |-> "Label",
     file |-> Append(sample_id, ".txt")]

ImageFilesAt(t, path) ==
    {f \in UNION {Range(d.files) : d \in FindDir(t, path.split, path.label)}
        : f.name = path.file}

AnnotFilesAt(t, path) ==
    {f \in UNION {Range(d.annots) : d \in FindDir(t, path.split, path.label)}
        : f.name = path.file}

\* load_image, lines 158-171, and the .shape read of line 241: cv2.imread
\* gives None for a file it cannot decode
LoadImage(t, split, lbl, sample_id) ==
    LET found == ImageFilesAt(t, GetImagePath(split, lbl, sample_id)) IN
    IF found = {} THEN [ok |-> FALSE, err |-> "NodeNotFound", w |-> 0, h |-> 0]
    ELSE LET f == CHOOSE x \in found : TRUE IN
         IF ~f.image.ok
         THEN [ok |-> FALSE, err |-> "AttributeError", w |-> 0, h |-> 0]
         ELSE [ok |-> TRUE, err |-> "", w |-> f.image.w, h |-> f.image.h]

Whitespace == {" ", "\n"}

\* str.split(): the maximal runs of non-whitespace pieces of the line
RECURSIVE SplitFrom(_, _, _, _)
SplitFrom(line, i, cur, items) ==
    IF i > Len(line) THEN (IF cur = "" THEN items ELSE Append(items, cur))
    ELSE IF line[i] \in Whitespace
         THEN SplitFrom(line, i + 1, "",
                        IF cur = "" THEN items ELSE Append(items, cur))
         ELSE SplitFrom(line, i + 1, cur \o line[i], items)

Split(line) == SplitFrom(line, 1, "", <<>>)

\* " ".join(items)
RECURSIVE Join(_)
Join(items) ==
    IF items = <<>> THEN ""
    ELSE IF Len(items) = 1 THEN items[1]
    ELSE items[1] \o " " \o Join(Tail(items))

\* float(v) on the tokens of the model: the value, or ValueError
FloatOf == ("0" :> 0) @@ ("10" :> 10) @@ ("40" :> 40) @@ ("60" :> 60)

IsFloat(v) == v \in DOMAIN FloatOf

\* items[:-4] and items[-4:]
AllButLast4(items) == SubSeq(items, 1, Len(items) - 4)

Last4(items) ==
    SubSeq(items, IF Len(items) > 4 THEN Len(items) - 3 ELSE 1, Len(items))

\* lines 205-209, one line: [label_name, *coords]
ParseLine(line) ==
    LET items == Split(line)
        tail == Last4(items)
    IN IF \E i \in 1..Len(tail) : ~IsFloat(tail[i])
       THEN [ok |-> FALSE, label |-> "", coords |-> <<>>]
       ELSE [ok |-> TRUE, label |-> Join(AllButLast4(items)),
             coords |-> [i \in 1..Len(tail) |-> FloatOf[tail[i]]]]

RECURSIVE ParseLines(_, _, _)
ParseLines(lines, i, annots) ==
    IF i > Len(lines) THEN [ok |-> TRUE, err |-> "", annots |-> annots]
    ELSE LET r == ParseLine(lines[i]) IN
         IF ~r.ok THEN [ok |-> FALSE, err |-> "ValueError", annots |-> <<>>]
         ELSE ParseLines(lines, i + 1,
                         Append(annots, [label |-> r.label, coords |-> r.coords]))

\* parse_annot, lines 187-210
ParseAnnot(t, split, lbl, sample_id) ==
    LET found == AnnotFilesAt(t, GetAnnotPath(split, lbl, sample_id)) IN
    IF found = {} THEN [ok |-> FALSE, err |-> "FileNotFoundError", annots |-> <<>>]
    ELSE ParseLines((CHOOSE x \in found : TRUE).lines, 1, <<>>)

(***************************************************************************)
(* convert.  A number of the output is an exact fraction <<n, d>> in       *)
(* lowest terms, d > 0; a line of an output label file is the sequence of  *)
(* its five numbers; an output label file is the sequence of the pieces    *)
(* written to it, lines and newline characters.                            *)
(***************************************************************************)
Abs(n) == IF n < 0 THEN -n ELSE n

RECURSIVE GCD(_, _)
GCD(a, b) == IF b = 0 THEN a ELSE GCD(b, a % b)

Frac(n, d) == LET g == GCD(Abs(n), d) IN <<n \div g, d \div g>>

NL == [nl |-> TRUE, row |-> <<>>]

TextLine(row) == [nl |-> FALSE, row |-> row]

\* lines 246-254: one converted row
ConvertRow(label_index, c, w, h) ==
    << Frac(label_index, 1),
       Frac(c[1] + c[3], 2 * w),
       Frac(c[2] + c[4], 2 * h),
       Frac(c[3] - c[1], w),
       Frac(c[4] - c[2], h) >>

\* lines 245-254: the loop over the records, which rebinds `label`
RECURSIVE ConvertRows(_, _, _, _, _, _, _)
ConvertRows(annots, i, lbl, rows, lookup, w, h) ==
    IF i > Len(annots) THEN [ok |-> TRUE, err |-> "", label |-> lbl, rows |-> rows]
    ELSE IF Len(annots[i].coords) # 4
    THEN [ok |-> FALSE, err |-> "ValueError:unpack", label |-> lbl, rows |-> rows]
    ELSE IF ~LookupHas(lookup, annots[i].label)
    THEN [ok |-> FALSE, err |-> "KeyError", label |-> annots[i].label, rows |-> rows]
    ELSE ConvertRows(annots, i + 1, annots[i].label,
                     Append(rows, ConvertRow(LookupGet(lookup, annots[i].label),
                                             annots[i].coords, w, h)),
                     lookup, w, h)

\* "\n".join(converted_annot_lines)
RECURSIVE JoinNL(_)
JoinNL(rows) ==
    IF rows = <<>> THEN <<>>
    ELSE IF Len(rows) = 1 THEN <<TextLine(rows[1])>>
    ELSE <<TextLine(rows[1]), NL>> \o JoinNL(Tail(rows))

FnPut(f, k, v) == [x \in DOMAIN f \cup {k} |-> IF x = k THEN v ELSE f[x]]

SaveLabelsTruncating(files, key, rows) == FnPut(files, key, JoinNL(rows) \o <<NL>>)

\* lines 257-262: open(new_annot_path, "a"), the joined rows, a newline
SaveLabels(files, key, rows) ==
    FnPut(files, key,
          (IF key \in DOMAIN files THEN files[key] ELSE <<>>) \o JoinNL(rows) \o <<NL>>)

\* lines 264-265: copy unless the destination exists
CopyImage(files, key, data, now) ==
    IF key \in DOMAIN files THEN files
    ELSE FnPut(files, key, [data |-> data, mtime |-> now])

NoPath == [split |-> "", label |-> "", dir |-> "", file |-> <<>>]

NoIO == [si |-> 0, li |-> 0, xi |-> 0, annot_path |-> NoPath, image_path |-> NoPath]

ImageData(t, path) == (CHOOSE f \in ImageFilesAt(t, path) : TRUE).image

Step(ok, err, lbl, labels, images) ==
    [ok |-> ok, err |-> err, label |-> lbl, labels |-> labels, images |-> images]

ConvertOneCopyingFirst(t, ad, split, lbl, sample_id, labels, images, now) ==
    LET p == ParseAnnot(t, split, lbl, sample_id)
        im == LoadImage(t, split, lbl, sample_id)
        imkey == <<split, Append(sample_id, ".jpg")>>
        copied == CopyImage(images, imkey,
                            ImageData(t, GetImagePath(split, lbl, sample_id)), now)
    IN IF ~p.ok THEN Step(FALSE, p.err, lbl, labels, images)
       ELSE IF ~im.ok THEN Step(FALSE, im.err, lbl, labels, images)
       ELSE LET c == ConvertRows(p.annots, 1, lbl, <<>>, ad.label_lookup, im.w, im.h)
            IN IF ~c.ok THEN Step(FALSE, c.err, c.label, labels, copied)
               ELSE Step(TRUE, "", c.label,
                         SaveLabels(labels, <<split, Append(sample_id, ".txt")>>,
                                    c.rows),
                         copied)

\* lines 233-265: the body of the loop over the samples, for one sample
ConvertOne(t, ad, split, lbl, sample_id, labels, images, now) ==
    LET p == ParseAnnot(t, split, lbl, sample_id)
        im == LoadImage(t, split, lbl, sample_id)
    IN IF ~p.ok THEN Step(FALSE, p.err, lbl, labels, images)
       ELSE IF ~im.ok THEN Step(FALSE, im.err, lbl, labels, images)
       ELSE LET c == ConvertRows(p.annots, 1, lbl, <<>>, ad.label_lookup, im.w, im.h)
            IN IF ~c.ok THEN Step(FALSE, c.err, c.label, labels, images)
               ELSE Step(TRUE, "", c.label,
                         SaveLabels(labels, <<split, Append(sample_id, ".txt")>>,
                                    c.rows),
                         CopyImage(images, <<split, Append(sample_id, ".jpg")>>,
                                   ImageData(t, GetImagePath(split, lbl, sample_id)),
                                   now))

(***************************************************************************)
(* Actions: the public calls.                                              *)
(***************************************************************************)
convertVars == <<pc, si, li, xi, label, clock, io, outDirs, outLabels, outImages,
                 outAfter>>

SplitArgs == {"train", "test", "val"}

\* AnimalToYOLODatasetAdapter(path, label_filter)
Construct ==
    /\ adapter.state = "none"
    /\ adapter' = NewAdapter(tree, label_filter)
    /\ ret' = IF adapter'.state = "ok" THEN [NoRet EXCEPT !.op = "__init__"]
              ELSE Raised("__init__", "", 0, "AssertionError")
    /\ UNCHANGED <<tree, label_filter>>
    /\ UNCHANGED convertVars

\* len(adapter)
CallLen ==
    /\ adapter.state = "ok"
    /\ ret' = [NoRet EXCEPT !.op = "__len__", !.value = AdapterLen(adapter)]
    /\ UNCHANGED <<tree, label_filter, adapter>>
    /\ UNCHANGED convertVars

\* adapter.get_split_size(split)
CallGetSplitSize ==
    /\ adapter.state = "ok"
    /\ \E split \in SplitArgs : ret' = GetSplitSize(adapter, split)
    /\ UNCHANGED <<tree, label_filter, adapter>>
    /\ UNCHANGED convertVars

\* adapter.get_random_samples(n, split)
CallGetRandomSamples ==
    /\ adapter.state = "ok"
    /\ \E split \in SplitArgs, n \in 0..MaxN :
          ret' \in GetRandomSamples(adapter, n, split)
    /\ UNCHANGED <<tree, label_filter, adapter>>
    /\ UNCHANGED convertVars

\* adapter.parse_annot(split, label, sample_id) on a sample of the index
CallParseAnnot ==
    /\ adapter.state = "ok"
    /\ \E i \in 1..Len(adapter.index) :
         \E j \in 1..Len(adapter.index[i].entries) :
           \E k \in 1..Len(adapter.index[i].entries[j].ids) :
             LET r == ParseAnnot(tree, adapter.index[i].split,
                                 adapter.index[i].entries[j].label,
                                 adapter.index[i].entries[j].ids[k])
             IN ret' = [NoRet EXCEPT !.op = "parse_annot", !.ok = r.ok,
                                     !.err = r.err, !.annots = r.annots,
                                     !.split = adapter.index[i].split]
    /\ UNCHANGED <<tree, label_filter, adapter>>
    /\ UNCHANGED convertVars

(***************************************************************************)
(* Actions: convert(path), one action per loop level.                      *)
(***************************************************************************)
OutputTree(labels, images) == [labels |-> labels, images |-> images]

\* the call itself, into the output root the earlier calls wrote
ConvertCall ==
    /\ adapter.state = "ok"
    /\ pc \in {"idle", "done", "error"}
    /\ clock < MaxRuns
    /\ pc' = "split" /\ si' = 1 /\ li' = 0 /\ xi' = 0
    /\ clock' = clock + 1
    /\ label' = "" /\ io' = NoIO
    /\ ret' = [NoRet EXCEPT !.op = "convert"]
    /\ UNCHANGED <<tree, label_filter, adapter, outDirs, outLabels, outImages,
                   outAfter>>

\* lines 219-224: the next split and its two directories, or the return
ConvertSplit ==
    /\ pc = "split"
    /\ IF si > Len(adapter.index)
       THEN /\ pc' = "done"
            /\ outAfter' = Append(outAfter, OutputTree(outLabels, outImages))
            /\ UNCHANGED <<li, outDirs>>
       ELSE /\ pc' = "label"
            /\ li' = 1
            /\ outDirs' = outDirs \cup {<<adapter.index[si].split, "images">>,
                                        <<adapter.index[si].split, "labels">>}
            /\ UNCHANGED outAfter
    /\ UNCHANGED <<tree, label_filter, adapter, ret, si, xi, label, clock, io,
                   outLabels, outImages>>

\* lines 226-231: the next label of the split, bound to `label`, and the
\* assertion on its sample ids
ConvertLabel ==
    /\ pc = "label"
    /\ LET entries == adapter.index[si].entries IN
       IF li > Len(entries)
       THEN /\ pc' = "split" /\ si' = si + 1
            /\ UNCHANGED <<label, xi, ret, outAfter>>
       ELSE /\ label' = entries[li].label
            /\ IF NoDup(entries[li].ids)
               THEN pc' = "sample" /\ xi' = 1 /\ UNCHANGED <<ret, outAfter>>
               ELSE /\ pc' = "error"
                    /\ ret' = Raised("convert", adapter.index[si].split, 0,
                                     "AssertionError")
                    /\ outAfter' = Append(outAfter, OutputTree(outLabels, outImages))
                    /\ UNCHANGED xi
            /\ UNCHANGED si
    /\ UNCHANGED <<tree, label_filter, adapter, li, clock, io, outDirs, outLabels,
                   outImages>>

\* lines 232-265: the next sample of the label
ConvertSample ==
    /\ pc = "sample"
    /\ LET split == adapter.index[si].split
           ids == adapter.index[si].entries[li].ids
       IN
       IF xi > Len(ids)
       THEN /\ pc' = "label" /\ li' = li + 1
            /\ UNCHANGED <<xi, label, io, ret, outLabels, outImages, outAfter>>
       ELSE LET r == ConvertOne(tree, adapter, split, label, ids[xi], outLabels,
                                outImages, clock)
            IN /\ io' = [si |-> si, li |-> li, xi |-> xi,
                         annot_path |-> GetAnnotPath(split, label, ids[xi]),
                         image_path |-> GetImagePath(split, label, ids[xi])]
               /\ label' = r.label
               /\ outLabels' = r.labels
               /\ outImages' = r.images
               /\ IF r.ok
                  THEN xi' = xi + 1 /\ UNCHANGED <<pc, ret, outAfter>>
                  ELSE /\ pc' = "error"
                       /\ ret' = Raised("convert", split, 0, r.err)
                       /\ outAfter' = Append(outAfter, OutputTree(r.labels, r.images))
                       /\ UNCHANGED xi
               /\ UNCHANGED li
    /\ UNCHANGED <<tree, label_filter, adapter, si, clock, outDirs>>

(***************************************************************************)
(* The datasets the behaviours start from.                                 *)
(***************************************************************************)
ImgA == [ok |-> TRUE, w |-> 100, h |-> 50]
ImgB == [ok |-> TRUE, w |-> 40, h |-> 40]
Undecodable == [ok |-> FALSE, w |-> 0, h |-> 0]

\* the text of a line whose tokens are `tokens`: single spaces, a newline
RECURSIVE LineOf(_)
LineOf(tokens) ==
    IF tokens = <<>> THEN <<"\n">>
    ELSE IF Len(tokens) = 1 THEN <<tokens[1], "\n">>
    ELSE <<tokens[1], " ">> \o LineOf(Tail(tokens))

ImageFile(name, image) == [name |-> name, image |-> image]

AnnotFile(name, lines) == [name |-> name, lines |-> lines]

LabelDir(name, files, annots) == [name |-> name, files |-> files, annots |-> annots]

\* every split directory holding the label directories `names`, in that
\* order, each with one of `contents`
SplitBodies(names, contents) ==
    {[i \in 1..Len(names) |-> LabelDir(names[i], c[i].files, c[i].annots)]
        : c \in [1..Len(names) -> contents]}

\* every tree holding the splits `names`, in that order, each one of `bodies`
TreesOver(names, bodies) ==
    {[i \in 1..Len(names) |-> [name |-> names[i], dirs |-> b[i]]]
        : b \in [1..Len(names) -> bodies]}

LabelOrders == {<<>>, <<"Cat">>, <<"Fast food">>, <<"Cat", "Fast food">>,
                <<"Fast food", "Cat">>}

\* label directories for the scan: empty, one sample, two samples among
\* stray entries, two kinds of mismatch, and two dot files
ScanContents ==
    { [files |-> <<>>, annots |-> <<>>],
      [files |-> <<ImageFile(<<"a", ".jpg">>, ImgA)>>,
       annots |-> <<AnnotFile(<<"a", ".txt">>, <<>>)>>],
      [files |-> <<ImageFile(<<"a", ".jpg">>, ImgA),
                   ImageFile(<<"notes", ".txt">>, Undecodable),
                   ImageFile(<<"b", ".jpg">>, ImgA)>>,
       annots |-> <<AnnotFile(<<"b", ".txt">>, <<>>),
                    AnnotFile(<<"a", ".txt">>, <<>>),
                    AnnotFile(<<"c", ".jpg">>, <<>>)>>],
      [files |-> <<ImageFile(<<"a", ".jpg">>, ImgA)>>,
       annots |-> <<AnnotFile(<<"b", ".txt">>, <<>>)>>],
      [files |-> <<ImageFile(<<"a", ".jpg">>, ImgA),
                   ImageFile(<<"b", ".jpg">>, ImgA)>>,
       annots |-> <<AnnotFile(<<"a", ".txt">>, <<>>)>>],
      [files |-> <<ImageFile(<<".jpg">>, ImgA),
                   ImageFile(<<".jpg", ".jpg">>, ImgA)>>,
       annots |-> <<AnnotFile(<<".jpg", ".txt">>, <<>>)>>] }

ScanSplitBodies == UNION {SplitBodies(names, ScanContents) : names \in LabelOrders}

\* a second split holds at most one label directory
SmallSplitBodies ==
    UNION {SplitBodies(names, ScanContents) : names \in {n \in LabelOrders : Len(n) < 2}}

ScanTrees ==
    {<<>>}
    \cup TreesOver(<<"train">>, ScanSplitBodies)
    \cup {<<[name |-> "train", dirs |-> b], [name |-> "test", dirs |-> c]>>
            : b \in ScanSplitBodies, c \in SmallSplitBodies}

NoFilter == [given |-> FALSE, names |-> {}]

ScanFilters ==
    {NoFilter, [given |-> TRUE, names |-> {"Cat"}], [given |-> TRUE, names |-> {}]}

Idle ==
    /\ ret = NoRet
    /\ pc = "idle" /\ si = 0 /\ li = 0 /\ xi = 0
    /\ label = "" /\ clock = 0 /\ io = NoIO
    /\ outDirs = {} /\ outLabels = EmptyFn /\ outImages = EmptyFn
    /\ outAfter = <<>>

(***************************************************************************)
(* Construction and the queries.                                           *)
(***************************************************************************)
InitScan ==
    /\ tree \in ScanTrees
    /\ label_filter \in ScanFilters
    /\ adapter = NoAdapter("none")
    /\ Idle

NextScan == Construct \/ CallLen \/ CallGetSplitSize \/ CallGetRandomSamples

SpecScan == InitScan /\ [][NextScan]_vars

(***************************************************************************)
(* parse_annot on annotation files of up to two lines.                     *)
(***************************************************************************)
ParseTokens == {"Cat", "10"}

ParseLinesIn == {LineOf(tokens) : tokens \in UNION {[1..n -> ParseTokens] : n \in 0..MaxTokens}}

ParseFiles ==
    {<<>>} \cup {<<l>> : l \in ParseLinesIn}
           \cup {<<l, m>> : l \in ParseLinesIn, m \in ParseLinesIn}

OneSampleTree(lines, image) ==
    << [name |-> "train",
        dirs |-> << LabelDir("Cat", <<ImageFile(<<"a", ".jpg">>, image)>>,
                             <<AnnotFile(<<"a", ".txt">>, lines)>>) >>] >>

InitParse ==
    /\ \E lines \in ParseFiles : tree = OneSampleTree(lines, ImgA)
    /\ label_filter = NoFilter
    /\ adapter = NewAdapter(tree, label_filter)
    /\ Idle

NextParse == CallParseAnnot

SpecParse == InitParse /\ [][NextParse]_vars

(***************************************************************************)
(* convert on datasets of one or two splits, up to two label directories   *)
(* in the first and up to two samples in each.                             *)
(***************************************************************************)
CatLine == LineOf(<<"Cat", "10", "10", "60", "40">>)
FastFoodLine == LineOf(<<"Fast", "food", "0", "10", "40", "40">>)

\* what a sample can be: its annotation lines and its image
SampleKinds ==
    { [lines |-> <<CatLine>>, image |-> ImgA],
      [lines |-> <<FastFoodLine>>, image |-> ImgB],
      [lines |-> <<>>, image |-> ImgA],
      [lines |-> <<CatLine, FastFoodLine>>, image |-> ImgA],
      [lines |-> <<LineOf(<<"10", "10", "60", "40">>)>>, image |-> ImgA],
      [lines |-> <<LineOf(<<"Cat", "10", "x", "60", "40">>)>>, image |-> ImgA],
      [lines |-> <<CatLine>>, image |-> Undecodable] }

PlainKinds ==
    { [lines |-> <<CatLine>>, image |-> ImgA],
      [lines |-> <<FastFoodLine>>, image |-> ImgB],
      [lines |-> <<>>, image |-> ImgA] }

SampleIds == {<<"a">>, <<"b">>}

\* the label directories holding up to two samples of `kinds`, in either order
DirContents(kinds) ==
    LET one(id, k) == [files |-> <<ImageFile(Append(id, ".jpg"), k.image)>>,
                       annots |-> <<AnnotFile(Append(id, ".txt"), k.lines)>>]
    IN {[files |-> <<>>, annots |-> <<>>]}
       \cup {one(id, k) : id \in SampleIds, k \in kinds}
       \cup {[files |-> one(id1, k1).files \o one(id2, k2).files,
              annots |-> one(id1, k1).annots \o one(id2, k2).annots]
               : <<id1, id2>> \in {p \in SampleIds \X SampleIds : p[1] # p[2]},
                 <<k1, k2>> \in kinds \X kinds}

\* label directories of dot files: one image, and two images of one stem
DotFileContents ==
    { [files |-> <<ImageFile(<<".jpg">>, ImgA)>>,
       annots |-> <<AnnotFile(<<".jpg", ".txt">>, <<CatLine>>)>>],
      [files |-> <<ImageFile(<<".jpg">>, ImgA), ImageFile(<<".jpg", ".jpg">>, ImgA)>>,
       annots |-> <<AnnotFile(<<".jpg", ".txt">>, <<CatLine>>)>>] }

CatContents == DirContents(SampleKinds) \cup DotFileContents

TrainBodies ==
    {<<LabelDir("Cat", c.files, c.annots)>> : c \in CatContents}
    \cup {<<LabelDir("Cat", c.files, c.annots), LabelDir("Fast food", d.files, d.annots)>>
            : c \in CatContents, d \in DirContents(PlainKinds)}

TestBody ==
    <<LabelDir("Cat", <<ImageFile(<<"a", ".jpg">>, ImgB)>>,
               <<AnnotFile(<<"a", ".txt">>, <<CatLine>>)>>)>>

ConvertTrees ==
    {<<[name |-> "train", dirs |-> b]>> : b \in TrainBodies}
    \cup {<<[name |-> "train", dirs |-> b], [name |-> "test", dirs |-> TestBody]>>
            : b \in TrainBodies}

InitConvert ==
    /\ tree \in ConvertTrees
    /\ label_filter = NoFilter
    /\ adapter = NewAdapter(tree, label_filter)
    /\ adapter.state = "ok"
    /\ Idle

NextConvert == ConvertCall \/ ConvertSplit \/ ConvertLabel \/ ConvertSample

SpecConvert == InitConvert /\ [][NextConvert]_vars

(***************************************************************************)
(* Properties of the scan and of the queries (SpecScan).                   *)
(***************************************************************************)
DirPositions ==
    UNION {{<<i, j>> : j \in 1..Len(tree[i].dirs)} : i \in 1..Len(tree)}

RetainedPositions ==
    {p \in DirPositions : Retained(tree[p[1]].dirs[p[2]].name, label_filter)}

ImageStems(d) ==
    {Stem(d.files[k].name) : k \in {k \in 1..Len(d.files) : EndsWith(d.files[k].name, ".jpg")}}

AnnotStems(d) ==
    {Stem(d.annots[k].name) : k \in {k \in 1..Len(d.annots) : EndsWith(d.annots[k].name, ".txt")}}

IndexPairs(index) ==
    UNION {{<<index[i].split, index[i].entries[j].label>>
               : j \in 1..Len(index[i].entries)} : i \in 1..Len(index)}

IndexedIds(split, lbl) == EntryIds(IndexEntries(adapter.index, split), lbl)

\* C1: after a scan that completes, the index holds exactly the (split,
\* label) pairs of the label directories the filter retains, the sample ids
\* of each pair are the image stems of the directory and the annotation
\* stems of its Label subdirectory, and no sample id is listed twice.
C1_IndexIsTheRetainedDirectories ==
    adapter.state = "ok" =>
        /\ IndexPairs(adapter.index)
             = {<<tree[p[1]].name, tree[p[1]].dirs[p[2]].name>> : p \in RetainedPositions}
        /\ \A p \in RetainedPositions :
             LET d == tree[p[1]].dirs[p[2]]
                 ids == IndexedIds(tree[p[1]].name, d.name)
             IN /\ Range(ids) = ImageStems(d)
                /\ Range(ids) = AnnotStems(d)
                /\ NoDup(ids)

Mismatched(d) == ImageStems(d) # AnnotStems(d)

\* C2: when a retained label directory of any split has image sample ids
\* that differ from its annotation sample ids, a construction that was
\* attempted has failed and left no index, statistics, lookup or size.
C2_MismatchAbortsConstruction ==
    (adapter.state # "none"
       /\ \E p \in RetainedPositions : Mismatched(tree[p[1]].dirs[p[2]]))
    => (adapter = NoAdapter("failed") /\ ~ret.ok)

\* A construction that failed in the second split, after a first split
\* whose directories were all retained, non-empty and consistent.
C2_FailedAfterGoodDirectories ==
    /\ adapter.state = "failed"
    /\ Len(tree) = 2
    /\ Len(tree[1].dirs) = 2
    /\ \A j \in 1..2 : /\ <<1, j>> \in RetainedPositions
                       /\ ~Mismatched(tree[1].dirs[j])
                       /\ ImageStems(tree[1].dirs[j]) # {}
    /\ \E p \in RetainedPositions : p[1] = 2 /\ Mismatched(tree[2].dirs[p[2]])

SplitTotal(split) ==
    LET entries == IndexEntries(adapter.index, split)
    IN SumSeq([j \in 1..Len(entries) |-> Len(entries[j].ids)])

\* C6: get_split_size succeeds exactly on the splits of the index, with the
\* sum of the lengths of the split's sample lists, and fails with a key
\* error on any other split; len(adapter) is the sum of get_split_size over
\* the indexed splits and the sum of label_stats over the labels.
C6_SizesAreSums ==
    adapter.state = "ok" =>
        /\ \A split \in SplitArgs :
             LET r == GetSplitSize(adapter, split)
             IN IF split \in IndexSplits(adapter.index)
                THEN r.ok /\ r.value = SplitTotal(split)
                ELSE ~r.ok /\ r.err = "KeyError"
        /\ AdapterLen(adapter)
             = SumFn([split \in IndexSplits(adapter.index)
                        |-> GetSplitSize(adapter, split).value],
                     IndexSplits(adapter.index))
        /\ AdapterLen(adapter)
             = SumFn(adapter.label_stats, DOMAIN adapter.label_stats)
        /\ (ret.op = "get_split_size" /\ ret.ok) => ret.value = SplitTotal(ret.split)
        /\ ret.op = "__len__" => ret.value = SumFn(adapter.split_stats,
                                                    IndexSplits(adapter.index))

\* get_split_size answered for one of two indexed splits, one of them
\* holding a label directory with no sample, with a label in both splits.
C6_TwoSplitsSized ==
    /\ adapter.state = "ok"
    /\ IndexSplits(adapter.index) = {"train", "test"}
    /\ ret.op = "get_split_size" /\ ret.ok /\ ret.value = 3
    /\ \E split \in IndexSplits(adapter.index) : SplitTotal(split) = 0
    /\ adapter.label_stats["Cat"] = 2

Malformed(line) ==
    LET items == Split(line)
    IN \/ Len(items) < 5
       \/ \E k \in 1..Len(items) : k > Len(items) - 4 /\ ~IsFloat(items[k])

\* C8: parse_annot fails, returning no record, whenever a line of the file
\* has fewer than 5 tokens or a non-numeric token among its last four;
\* otherwise every line yields one record, its label name the tokens before
\* the last four joined by single spaces, its coordinates the last four.
C8_ParseFailsOnEveryMalformedLine ==
    ret.op = "parse_annot" =>
        LET lines == tree[1].dirs[1].annots[1].lines IN
        IF \E k \in 1..Len(lines) : Malformed(lines[k])
        THEN ~ret.ok /\ ret.annots = <<>>
        ELSE /\ ret.ok
             /\ Len(ret.annots) = Len(lines)
             /\ \A k \in 1..Len(lines) :
                  LET items == Split(lines[k]) IN
                  /\ ret.annots[k].label = Join(SubSeq(items, 1, Len(items) - 4))
                  /\ ret.annots[k].coords
                       = [c \in 1..4 |-> FloatOf[items[Len(items) - 4 + c]]]

(***************************************************************************)
(* Properties of convert (SpecConvert).                                    *)
(***************************************************************************)
IndexedSamples ==
    UNION {UNION {{<<i, j, k>> : k \in 1..Len(adapter.index[i].entries[j].ids)}
                     : j \in 1..Len(adapter.index[i].entries)}
              : i \in 1..Len(adapter.index)}

SplitOf(p) == adapter.index[p[1]].split
LabelOf(p) == adapter.index[p[1]].entries[p[2]].label
IdOf(p) == adapter.index[p[1]].entries[p[2]].ids[p[3]]

LabelFileOf(p) == <<SplitOf(p), Append(IdOf(p), ".txt")>>
ImageFileOf(p) == <<SplitOf(p), Append(IdOf(p), ".jpg")>>

\* the annotation records of a sample, read in its own label directory,
\* each with the size of the sample's own image
OwnRecords(p) ==
    LET a == ParseAnnot(tree, SplitOf(p), LabelOf(p), IdOf(p)).annots
        im == LoadImage(tree, SplitOf(p), LabelOf(p), IdOf(p))
    IN [k \in 1..Len(a) |-> [label |-> a[k].label, coords |-> a[k].coords,
                             w |-> im.w, h |-> im.h]]

\* the records of sample id x of a split, over the label directories of the
\* split that hold x, in the order convert visits them
RECURSIVE RecordsOfId(_, _, _)
RecordsOfId(i, x, j) ==
    IF j > Len(adapter.index[i].entries) THEN <<>>
    ELSE LET ids == adapter.index[i].entries[j].ids
             here == {k \in 1..Len(ids) : ids[k] = x}
         IN (IF here = {} THEN <<>> ELSE OwnRecords(<<i, j, CHOOSE k \in here : TRUE>>))
            \o RecordsOfId(i, x, j + 1)

IsText(piece) == ~piece.nl

\* a written line states the record: its five numbers, by cross-multiplying
LineStates(row, rec) ==
    /\ Len(row) = 5
    /\ LookupHas(adapter.label_lookup, rec.label)
    /\ row[1] = <<LookupGet(adapter.label_lookup, rec.label), 1>>
    /\ row[2][1] * 2 * rec.w = (rec.coords[1] + rec.coords[3]) * row[2][2]
    /\ row[3][1] * 2 * rec.h = (rec.coords[2] + rec.coords[4]) * row[3][2]
    /\ row[4][1] * rec.w = (rec.coords[3] - rec.coords[1]) * row[4][2]
    /\ row[5][1] * rec.h = (rec.coords[4] - rec.coords[2]) * row[5][2]

\* C3: after one convert that completes into an empty output root, the
\* label file of every indexed sample id of every split holds one line per
\* annotation record of the id, in record order, and no other non-empty
\* line, each line the lookup index of the record's label and the box
\* normalised by the size of the sample's image; and its image file exists.
C3_ConvertWritesTheRecords ==
    (pc = "done" /\ clock = 1) =>
        \A p \in IndexedSamples :
            /\ ImageFileOf(p) \in DOMAIN outImages
            /\ LabelFileOf(p) \in DOMAIN outLabels
            /\ LET rows == SelectSeq(outLabels[LabelFileOf(p)], IsText)
                   recs == RecordsOfId(p[1], IdOf(p), 1)
               IN /\ Len(rows) = Len(recs)
                  /\ \A k \in 1..Len(recs) : LineStates(rows[k].row, recs[k])

\* C4: a later convert over the same output root leaves every image file
\* as the first call left it (data and time of writing) and every label
\* file with the content the first call gave it appended once more.
C4_SecondRunKeepsImagesAndDuplicatesLines ==
    \A r \in 2..Len(outAfter) :
        /\ outAfter[r].images = outAfter[1].images
        /\ DOMAIN outAfter[r].labels = DOMAIN outAfter[1].labels
        /\ \A f \in DOMAIN outAfter[1].labels :
             outAfter[r].labels[f] = outAfter[r - 1].labels[f] \o outAfter[1].labels[f]

\* Two completed calls whose first wrote a label line and copied an image.
C4_TwoRunsCompleted ==
    /\ Len(outAfter) = 2 /\ pc = "done"
    /\ outAfter[1].images # EmptyFn
    /\ \E f \in DOMAIN outAfter[1].labels :
          \E k \in 1..Len(outAfter[1].labels[f]) : IsText(outAfter[1].labels[f][k])

\* the sample convert is about to process fails in parsing, in loading the
\* image or in looking up a label
NextSampleFails ==
    /\ pc = "sample"
    /\ xi <= Len(adapter.index[si].entries[li].ids)
    /\ LET split == adapter.index[si].split
           id == adapter.index[si].entries[li].ids[xi]
           p == ParseAnnot(tree, split, label, id)
       IN \/ ~p.ok
          \/ ~LoadImage(tree, split, label, id).ok
          \/ \E k \in 1..Len(p.annots) :
                \/ Len(p.annots[k].coords) # 4
                \/ ~LookupHas(adapter.label_lookup, p.annots[k].label)

\* C5: a sample that fails in parsing, image loading or label lookup ends
\* the call in error with nothing written for it; an ended call writes
\* nothing more (no later sample is processed, nothing is rolled back): the
\* only step from the error is a new call.
C5_AbortsOnFirstFailingSample ==
    [][ /\ NextSampleFails =>
             (pc' = "error" /\ outLabels' = outLabels /\ outImages' = outImages)
        /\ (pc = "sample" /\ pc' = "error") =>
             (outLabels' = outLabels /\ outImages' = outImages)
        /\ pc = "error" =>
             (pc' = "split" /\ clock' = clock + 1
                /\ outLabels' = outLabels /\ outImages' = outImages)
      ]_vars

\* A call ended by its second sample, after the first was written and with
\* a label directory of samples still to come.
C5_FailedBetweenSamples ==
    /\ pc = "error" /\ ret.err \in {"ValueError", "KeyError", "AttributeError"}
    /\ io.xi = 2
    /\ outLabels # EmptyFn /\ outImages # EmptyFn
    /\ io.li < Len(adapter.index[io.si].entries)
    /\ adapter.index[io.si].entries[io.li + 1].ids # <<>>

\* C9: after one convert that completes into an empty output root, the
\* label file of an indexed sample whose annotation file has no line is
\* absent or holds zero bytes, and the sample's image is copied.
C9_NoLineGivesEmptyLabelFile ==
    (pc = "done" /\ clock = 1) =>
        \A p \in IndexedSamples :
            (\E f \in AnnotFilesAt(tree, GetAnnotPath(SplitOf(p), LabelOf(p), IdOf(p)))
                : f.lines = <<>>)
            => /\ (LabelFileOf(p) \in DOMAIN outLabels => outLabels[LabelFileOf(p)] = <<>>)
               /\ ImageFileOf(p) \in DOMAIN outImages

\* C10: the annotation file convert parses and the image it loads and
\* copies for a sample are those of the sample's own label directory in the
\* index, whatever label names the records of earlier samples hold.
C10_ConvertReadsTheSamplesOwnFiles ==
    io.xi # 0 =>
        LET p == <<io.si, io.li, io.xi>> IN
        /\ io.annot_path = GetAnnotPath(SplitOf(p), LabelOf(p), IdOf(p))
        /\ io.image_path = GetImagePath(SplitOf(p), LabelOf(p), IdOf(p))

====
